---- MODULE Spec2Model ----
(***************************************************************************)
(* EarlyAllocator<PAGE_SIZE> of modules/bump_allocator: a double-ended     *)
(* bump allocator.  Bytes are handed out forward from start, pages         *)
(* backward from end.  All fields are machine words (usize); the model     *)
(* keeps the word width, scaled down to WordBits bits, and both overflow   *)
(* behaviours a Rust build can have: overflow checks on (the operation     *)
(* panics) and overflow checks off (the result wraps modulo 2^WordBits).   *)
(***************************************************************************)
EXTENDS Integers, Sequences, FiniteSets, TLC

\* ---------------------------------------------------------------- words
\* Width of usize, scaled down (the fields of lib.rs:22-25 are usize).
WordBits == 8
\* The const generic PAGE_SIZE (lib.rs:21, 85), a power of two, scaled down.
PAGE_SIZE == 4

RECURSIVE Pow2(_)
Pow2(n) == IF n = 0 THEN 1 ELSE 2 * Pow2(n - 1)

\* Number of usize values; usize::MAX and isize::MAX.
Modulus == Pow2(WordBits)
UsizeMax == Modulus - 1
IsizeMax == Pow2(WordBits - 1) - 1

\* ---------------------------------------------------------------- bounds
\* Successful allocations recorded between two init calls.
MaxAllocs == 3
\* Small request sizes 0..MaxSize (large ones are added in Sizes).
MaxSize == 1
\* Small page counts 0..MaxPages (large ones are added in PageCounts).
MaxPages == 1
\* Calls of init in a run that initialises the allocator again.
MaxInits == 2
\* Successful allocations between two init calls in such a run.
MaxAllocsAgain == 2

\* ------------------------------------------------------ word arithmetic
\* a + b, a - b, a * b on usize: the wrapped value, and whether the exact
\* result is out of range (a panic when the build checks overflow).
WrapAdd(a, b) == (a + b) % Modulus
AddOverflows(a, b) == a + b > UsizeMax
WrapSub(a, b) == (a - b + Modulus) % Modulus
SubOverflows(a, b) == a < b
WrapMul(a, b) == (a * b) % Modulus
MulOverflows(a, b) == a * b > UsizeMax
\* 1 << n on usize: a shift by WordBits or more overflows; unchecked, the
\* shift amount is taken modulo the width.
ShlOverflows(n) == n >= WordBits
WrapShl1(n) == Pow2(n % WordBits)

RECURSIVE BitAnd(_, _)
BitAnd(a, b) ==
    IF a = 0 \/ b = 0 THEN 0
    ELSE (a % 2) * (b % 2) + 2 * BitAnd(a \div 2, b \div 2)
\* !x on usize.
BitNot(x) == UsizeMax - x

RECURSIVE CountOnes(_)
CountOnes(x) == IF x = 0 THEN 0 ELSE (x % 2) + CountOnes(x \div 2)

\* usize::is_power_of_two, mutated: zero passes (x & (x - 1) == 0).
IsPowerOfTwoZeroPasses(x) == x = 0 \/ CountOnes(x) = 1
\* usize::is_power_of_two as alloc_pages uses it (lib.rs:92).
is_power_of_two(x) == CountOnes(x) = 1


\* ---------------------------------------------------------------- state
VARIABLES
    start,          \* lib.rs:22
    end,            \* lib.rs:23
    byte_pos,       \* lib.rs:24
    page_pos,       \* lib.rs:25
    checked,        \* the build checks integer overflow (debug) or wraps (release)
    inits,          \* calls of init so far
    op,             \* the last operation called
    args,           \* its arguments
    res,            \* its result
    byte_allocs,    \* [addr, size] of the successful alloc calls since init
    page_allocs,    \* [addr, size] of the successful alloc_pages calls since init
    count           \* byte allocations not yet matched by a dealloc (lib.rs:17)

vars == <<start, end, byte_pos, page_pos, checked, inits, op, args, res,
          byte_allocs, page_allocs, count>>
fields == <<start, end, byte_pos, page_pos>>
history == <<byte_allocs, page_allocs, count>>

\* Results: AllocResult values, () of the functions returning nothing, and
\* the panic that ends the program.
Ok(addr) == [kind |-> "Ok", addr |-> addr]
Unit == [kind |-> "Unit", addr |-> 0]
NoMemory == [kind |-> "NoMemory", addr |-> 0]
InvalidParam == [kind |-> "InvalidParam", addr |-> 0]
Panic == [kind |-> "Panic", addr |-> 0]

Args(a, b) == [a |-> a, b |-> b]

\* A panic is fatal: no operation runs after it.
Running == res.kind # "Panic"

\* ---------------------------------------------------------------- inputs
\* Regions init is called with: start + size fits a word.  A page-aligned
\* region of four pages in the lower half of the address space, and one in
\* the upper half whose end is not page-aligned.
Regions == { <<16, 16>>, <<192, 34>> }

\* Layout::align is a power of two; Layout::size rounded up to it is at
\* most isize::MAX.  Small requests, a page-sized one, one aligned to half
\* the upper half of the address space, and the largest Layout.
Layouts ==
    ((0 .. MaxSize) \X { 1, 8 }) \cup { <<16, 1>>, <<16, 64>>, <<IsizeMax, 1>> }

\* num_pages and align_pow2 of alloc_pages: any usize.  A few pages aligned
\* to 1 or 2 pages, one page aligned to 4 or 8 pages, page counts whose
\* byte size is at and just below 2^WordBits, and three alignments that
\* alloc_pages refuses: zero, not a multiple of PAGE_SIZE, and three pages.
HugePages == Modulus \div PAGE_SIZE
BadPageAligns == { 0, PAGE_SIZE + 2, 3 * PAGE_SIZE }
PageRequests ==
    ((0 .. MaxPages) \X { PAGE_SIZE, 2 * PAGE_SIZE })
        \cup { <<1, 4 * PAGE_SIZE>>, <<1, 8 * PAGE_SIZE>>,
               <<HugePages - 1, PAGE_SIZE>>, <<HugePages, PAGE_SIZE>> }
        \cup ({ 1, HugePages - 1 } \X BadPageAligns)

\* ------------------------------------------------------------- new, init
\* EarlyAllocator::new (lib.rs:29-36); the build mode is fixed at compile time.
Init ==
    /\ start = 0 /\ end = 0 /\ byte_pos = 0 /\ page_pos = 0
    /\ checked \in BOOLEAN
    /\ inits = 0
    /\ op = "new" /\ args = Args(0, 0) /\ res = Unit
    /\ byte_allocs = <<>> /\ page_allocs = <<>> /\ count = 0

\* init mutated: on an allocator already initialised the byte cursor is kept.
InitKeepsBytePos(s, size) ==
    /\ Running
    /\ start' = s
    /\ end' = WrapAdd(s, size)
    /\ byte_pos' = IF inits > 0 THEN byte_pos ELSE s
    /\ page_pos' = WrapAdd(s, size)
    /\ inits' = inits + 1
    /\ op' = "init" /\ args' = Args(s, size) /\ res' = Unit
    /\ byte_allocs' = <<>> /\ page_allocs' = <<>> /\ count' = 0
    /\ UNCHANGED checked
\* BaseAllocator::init (lib.rs:40-45).
init(s, size) ==
    /\ Running
    /\ start' = s
    /\ end' = WrapAdd(s, size)
    /\ byte_pos' = s
    /\ page_pos' = WrapAdd(s, size)
    /\ inits' = inits + 1
    /\ op' = "init" /\ args' = Args(s, size) /\ res' = Unit
    /\ byte_allocs' = <<>> /\ page_allocs' = <<>> /\ count' = 0
    /\ UNCHANGED checked

\* add_memory mutated: the unsupported call is reported as an error value.
AddMemoryReturnsError(s, size) ==
    /\ Running
    /\ op' = "add_memory" /\ args' = Args(s, size) /\ res' = InvalidParam
    /\ UNCHANGED <<start, end, byte_pos, page_pos, checked, inits,
                   byte_allocs, page_allocs, count>>
\* BaseAllocator::add_memory (lib.rs:47-49): unimplemented!() panics in
\* every build.
add_memory(s, size) ==
    /\ Running
    /\ op' = "add_memory" /\ args' = Args(s, size) /\ res' = Panic
    /\ UNCHANGED <<start, end, byte_pos, page_pos, checked, inits,
                   byte_allocs, page_allocs, count>>

\* ---------------------------------------------------------------- alloc
\* lib.rs:57 mutated: the mask is left out.
AlignedStartNoMask(pos, align) == WrapSub(WrapAdd(pos, align), 1)
\* (byte_pos + align - 1) & !(align - 1), lib.rs:57, on wrapped words.
aligned_start(pos, align) ==
    BitAnd(WrapSub(WrapAdd(pos, align), 1), BitNot(align - 1))
\* Whether lib.rs:57-58 overflow: byte_pos + align, then aligned_start + size.
alloc_overflows(pos, size, align) ==
    \/ AddOverflows(pos, align)
    \/ AddOverflows(aligned_start(pos, align), size)

\* The cursor after a successful alloc: aligned_start + size (lib.rs:62).
new_byte_pos(pos, size, align) == WrapAdd(aligned_start(pos, align), size)

\* The out-of-memory test of lib.rs:58.
alloc_fails(pos, size, align) == new_byte_pos(pos, size, align) > page_pos

\* alloc mutated: the cursor is moved to the aligned address before the
\* out-of-memory test, so a failed call keeps the padding.
AllocKeepsPadding(size, align) ==
    /\ Running
    /\ op' = "alloc" /\ args' = Args(size, align)
    /\ UNCHANGED <<start, end, page_pos, checked, inits, page_allocs>>
    /\ IF checked /\ alloc_overflows(byte_pos, size, align)
       THEN /\ res' = Panic
            /\ UNCHANGED <<byte_pos, byte_allocs, count>>
       ELSE IF alloc_fails(byte_pos, size, align)
       THEN /\ res' = NoMemory
            /\ byte_pos' = aligned_start(byte_pos, align)
            /\ UNCHANGED <<byte_allocs, count>>
       ELSE /\ byte_pos' = new_byte_pos(byte_pos, size, align)
            /\ res' = Ok(aligned_start(byte_pos, align))
            /\ byte_allocs' = Append(byte_allocs,
                  [addr |-> aligned_start(byte_pos, align), size |-> size])
            /\ count' = count + 1
\* ByteAllocator::alloc (lib.rs:53-65).  NonNull::new_unchecked(0) is
\* undefined behaviour: the build returns the null address or traps.
alloc(size, align) ==
    /\ Running
    /\ op' = "alloc" /\ args' = Args(size, align)
    /\ UNCHANGED <<start, end, page_pos, checked, inits, page_allocs>>
    /\ IF checked /\ alloc_overflows(byte_pos, size, align)
       THEN /\ res' = Panic
            /\ UNCHANGED <<byte_pos, byte_allocs, count>>
       ELSE IF alloc_fails(byte_pos, size, align)
       THEN /\ res' = NoMemory
            /\ UNCHANGED <<byte_pos, byte_allocs, count>>
       ELSE /\ byte_pos' = new_byte_pos(byte_pos, size, align)
            /\ \/ /\ res' = Ok(aligned_start(byte_pos, align))
                  /\ byte_allocs' = Append(byte_allocs,
                        [addr |-> aligned_start(byte_pos, align), size |-> size])
                  /\ count' = count + 1
               \/ /\ aligned_start(byte_pos, align) = 0
                  /\ res' = Panic
                  /\ UNCHANGED <<byte_allocs, count>>

\* ByteAllocator::dealloc (lib.rs:67-69), mutated: the bytes area is freed
\* when the last allocation is returned (the scheme of lib.rs:17-18).
DeallocFreesAtZero(pos, size, align) ==
    /\ Running
    /\ op' = "dealloc" /\ args' = Args(pos, size) /\ res' = Unit
    /\ count' = IF count > 0 THEN count - 1 ELSE 0
    /\ byte_pos' = IF count <= 1 THEN start ELSE byte_pos
    /\ UNCHANGED <<start, end, page_pos, checked, inits, byte_allocs, page_allocs>>
\* ByteAllocator::dealloc (lib.rs:67-69): does nothing.  count is what the
\* caller sees: one allocation fewer outstanding.
dealloc(pos, size, align) ==
    /\ Running
    /\ op' = "dealloc" /\ args' = Args(pos, size) /\ res' = Unit
    /\ count' = IF count > 0 THEN count - 1 ELSE 0
    /\ UNCHANGED <<fields, checked, inits, byte_allocs, page_allocs>>

\* ----------------------------------------------------------- statistics
\* The getters of lib.rs:71-81 and lib.rs:112-122.
total_bytes == WrapSub(end, start)
\* used_bytes mutated: the cursor itself, start not subtracted.
UsedBytesFromZero == byte_pos
used_bytes == WrapSub(byte_pos, start)
available_bytes == WrapSub(page_pos, byte_pos)
total_pages == WrapSub(end, start) \div PAGE_SIZE
\* used_pages mutated: a partly used page counts as used.
UsedPagesRoundedUp == (WrapSub(end, page_pos) + PAGE_SIZE - 1) \div PAGE_SIZE
used_pages == WrapSub(end, page_pos) \div PAGE_SIZE
available_pages == WrapSub(page_pos, byte_pos) \div PAGE_SIZE

\* ----------------------------------------------------------- alloc_pages
\* The checks on align_pow2 (lib.rs:88-94).
invalid_align(align_pow2) ==
    \/ align_pow2 % PAGE_SIZE # 0
    \/ ~is_power_of_two(align_pow2 \div PAGE_SIZE)

\* let size = num_pages * PAGE_SIZE (lib.rs:96).
pages_size(num_pages) == WrapMul(num_pages, PAGE_SIZE)
\* let align = 1 << align_pow2, align_pow2 being align / PAGE_SIZE (lib.rs:91, 97).
page_align(units) == WrapShl1(units)
\* (self.page_pos - size) & !(align - 1), lib.rs:99, on wrapped words.
new_page_pos(pos, num_pages, units) ==
    BitAnd(WrapSub(pos, pages_size(num_pages)), BitNot(page_align(units) - 1))
\* Whether lib.rs:96-99 overflow: the product, the shift, the difference.
alloc_pages_overflows(pos, num_pages, units) ==
    \/ MulOverflows(num_pages, PAGE_SIZE)
    \/ ShlOverflows(units)
    \/ SubOverflows(pos, pages_size(num_pages))

\* PageAllocator::alloc_pages (lib.rs:87-106).
alloc_pages(num_pages, align_pow2) ==
    /\ Running
    /\ op' = "alloc_pages" /\ args' = Args(num_pages, align_pow2)
    /\ UNCHANGED <<start, end, byte_pos, checked, inits, byte_allocs, count>>
    /\ LET units == align_pow2 \div PAGE_SIZE
           new == new_page_pos(page_pos, num_pages, units)
       IN IF invalid_align(align_pow2)
          THEN /\ res' = InvalidParam
               /\ UNCHANGED <<page_pos, page_allocs>>
          ELSE IF checked /\ alloc_pages_overflows(page_pos, num_pages, units)
          THEN /\ res' = Panic
               /\ UNCHANGED <<page_pos, page_allocs>>
          ELSE IF new < byte_pos
          THEN /\ res' = NoMemory
               /\ UNCHANGED <<page_pos, page_allocs>>
          ELSE /\ page_pos' = new
               /\ res' = Ok(new)
               /\ page_allocs' = Append(page_allocs,
                     [addr |-> new, size |-> num_pages * PAGE_SIZE])

\* PageAllocator::dealloc_pages (lib.rs:108-110): does nothing.
dealloc_pages(pos, num_pages) ==
    /\ Running
    /\ op' = "dealloc_pages" /\ args' = Args(pos, num_pages) /\ res' = Unit
    /\ UNCHANGED <<fields, checked, inits, history>>

\* ------------------------------------------------------------- outcomes
\* What alloc(size, align) returns when called in the current state
\* (lib.rs:57-64); a null address counts as Ok.
alloc_result(size, align) ==
    IF checked /\ alloc_overflows(byte_pos, size, align) THEN "Panic"
    ELSE IF alloc_fails(byte_pos, size, align) THEN "NoMemory"
    ELSE "Ok"
\* What alloc_pages(num_pages, align_pow2) returns when called in the
\* current state (lib.rs:88-105).
alloc_pages_result(num_pages, align_pow2) ==
    IF invalid_align(align_pow2) THEN "InvalidParam"
    ELSE IF checked /\ alloc_pages_overflows(page_pos, num_pages,
                                             align_pow2 \div PAGE_SIZE)
    THEN "Panic"
    ELSE IF new_page_pos(page_pos, num_pages, align_pow2 \div PAGE_SIZE) < byte_pos
    THEN "NoMemory"
    ELSE "Ok"

\* ------------------------------------------------------------------ next
\* Arguments the callers pass to dealloc and dealloc_pages: any address.
DeallocRequests == { <<16, 1, 1>>, <<200, 16, 8>> }
DeallocPagesRequests == { <<28, 1>>, <<216, 2>> }

\* The callers: the allocator is initialised before it is used, and a run
\* ends after MaxAllocs successful allocations.
Initialized == inits > 0
MayAllocate == Initialized /\ Len(byte_allocs) + Len(page_allocs) < MaxAllocs

\* The intended lifecycle: init is called once, then the allocator is used.
Next ==
    \/ \E r \in Regions : ~Initialized /\ init(r[1], r[2])
    \/ \E l \in Layouts : MayAllocate /\ alloc(l[1], l[2])
    \/ \E d \in DeallocRequests : Initialized /\ dealloc(d[1], d[2], d[3])
    \/ \E r \in PageRequests : MayAllocate /\ alloc_pages(r[1], r[2])
    \/ \E d \in DeallocPagesRequests : Initialized /\ dealloc_pages(d[1], d[2])

Spec == Init /\ [][Next]_vars

\* The lifecycle calls made at any time: init on an allocator already in
\* use, and add_memory.
AddMemoryRequests == { <<32, 16>>, <<0, 0>> }
MayInit == inits < MaxInits
MayAllocateAgain ==
    Initialized /\ Len(byte_allocs) + Len(page_allocs) < MaxAllocsAgain

NextReinit ==
    \/ \E r \in Regions : MayInit /\ init(r[1], r[2])
    \/ \E m \in AddMemoryRequests : add_memory(m[1], m[2])
    \/ \E l \in Layouts : MayAllocateAgain /\ alloc(l[1], l[2])
    \/ \E d \in DeallocRequests : Initialized /\ dealloc(d[1], d[2], d[3])
    \/ \E r \in PageRequests : MayAllocateAgain /\ alloc_pages(r[1], r[2])
    \/ \E d \in DeallocPagesRequests : Initialized /\ dealloc_pages(d[1], d[2])

SpecReinit == Init /\ [][NextReinit]_vars

\* ------------------------------------------------------------ properties
\* The arithmetic of the claims, on unbounded integers.
\* round_up(pos, align): the least multiple of align that is >= pos.
RoundUp(pos, align) == ((pos + align - 1) \div align) * align
\* x is a power of two.
PowerOfTwo(x) == \E k \in 0 .. WordBits : x = Pow2(k)
\* The address ranges [addr, addr + size) of a and b have a byte in common.
Overlap(a, b) ==
    /\ a.size > 0 /\ b.size > 0
    /\ a.addr < b.addr + b.size
    /\ b.addr < a.addr + a.size
\* The cursors are in order.
Ordered == start <= byte_pos /\ byte_pos <= page_pos /\ page_pos <= end

\* C1: after init, in every reachable state,
\* start <= byte_pos <= page_pos <= end.
C1_CursorsOrdered == Initialized => Ordered

\* C2 as stated, on the states where no arithmetic has wrapped (the
\* cursors are in order): used_bytes() + available_bytes() == total_bytes().
C2_ByteStatsSumToTotal ==
    Initialized /\ Ordered => used_bytes + available_bytes = total_bytes
\* C2 amended: in every state after init, in usize arithmetic,
\* used_bytes() + available_bytes() == total_bytes() - (end - page_pos):
\* the bytes handed out as pages are part of total_bytes and of neither
\* used_bytes nor available_bytes, so the sum is total_bytes exactly while
\* page_pos == end.
C2_ByteStatsSumToTotalLessPages ==
    Initialized =>
        /\ WrapAdd(used_bytes, available_bytes)
              = WrapSub(total_bytes, WrapSub(end, page_pos))
        /\ (page_pos = end => WrapAdd(used_bytes, available_bytes) = total_bytes)
        /\ (Ordered /\ page_pos < end => used_bytes + available_bytes < total_bytes)
\* C2 witness: bytes and pages have both been allocated, in order.
C2_Witness ==
    /\ Ordered
    /\ Len(byte_allocs) > 0 /\ byte_pos > start
    /\ Len(page_allocs) > 0 /\ page_pos < end

\* C3 as stated, on the states where no arithmetic has wrapped (the
\* cursors are in order): used_pages() + available_pages() == total_pages().
C3_PageStatsSumToTotal ==
    Initialized /\ Ordered => used_pages + available_pages = total_pages
\* C3 amended: in every state after init whose cursors are in order,
\* used_pages() + available_pages() <= total_pages(), with equality when no
\* bytes are allocated (byte_pos == start) and end - page_pos is a multiple
\* of PAGE_SIZE.
C3_PageStatsSumAtMostTotal ==
    Initialized /\ Ordered =>
        /\ used_pages + available_pages <= total_pages
        /\ (byte_pos = start /\ (end - page_pos) % PAGE_SIZE = 0
              => used_pages + available_pages = total_pages)
\* C3 witness: pages are allocated and no bytes, so the sum is the total; the
\* region has been used.
C3_Witness ==
    /\ Ordered
    /\ Len(page_allocs) > 0 /\ page_pos < end
    /\ byte_pos = start /\ (end - page_pos) % PAGE_SIZE = 0
    /\ used_pages > 0

\* C4: no two successful alloc calls since init return overlapping ranges
\* [addr, addr + size).
C4_ByteRangesDisjoint ==
    \A i, j \in 1 .. Len(byte_allocs) :
        i < j => ~Overlap(byte_allocs[i], byte_allocs[j])

\* C5: the address a successful alloc(size, align) returns is a multiple
\* of align.
C5_ByteAddressAligned ==
    op = "alloc" /\ res.kind = "Ok" => res.addr % args.b = 0
\* C5 witness: an alloc with align 8 returned an address above the cursor
\* it started from: padding was inserted.
C5_Witness ==
    /\ op = "alloc" /\ res.kind = "Ok" /\ args.b = 8
    /\ Len(byte_allocs) >= 2
    /\ LET prev == byte_allocs[Len(byte_allocs) - 1]
       IN res.addr > prev.addr + prev.size

\* C6: the address a successful alloc_pages returns is a multiple of
\* PAGE_SIZE, whatever region init was given.  Stated for the build that
\* checks overflow, where no result is a wrapped one.
C6_PageAddressPageAligned ==
    checked /\ op = "alloc_pages" /\ res.kind = "Ok" => res.addr % PAGE_SIZE = 0

\* C7: the address a successful alloc_pages(num_pages, align_in_bytes)
\* returns is a multiple of align_in_bytes.  Stated for the build that
\* checks overflow, where no result is a wrapped one.
C7_PageAddressAligned ==
    checked /\ op = "alloc_pages" /\ res.kind = "Ok" => res.addr % args.b = 0

\* C8: alloc(size, align) returns NoMemory exactly when
\* round_up(byte_pos, align) + size > page_pos, and succeeds otherwise.
C8_AllocFailsExactlyWhenFull ==
    [][op' = "alloc" =>
          IF RoundUp(byte_pos, args'.b) + args'.a > page_pos
          THEN res'.kind = "NoMemory"
          ELSE res'.kind = "Ok"]_vars

\* C9: alloc_pages(num_pages, align) returns InvalidParam whenever align is
\* not a multiple of PAGE_SIZE or align / PAGE_SIZE is not a power of two.
C9_BadAlignRefused ==
    op = "alloc_pages"
        /\ (args.b % PAGE_SIZE # 0 \/ ~PowerOfTwo(args.b \div PAGE_SIZE))
        => res.kind = "InvalidParam"
\* C9 witness: alloc_pages was called with align 0 for more pages than the
\* address space holds, and returned InvalidParam.
C9_Witness ==
    /\ op = "alloc_pages" /\ res.kind = "InvalidParam"
    /\ args.b = 0 /\ args.a = HugePages - 1

C11_BytesFreedAtZero ==
    [][/\ op' = "dealloc"
       /\ count = 1 /\ count' = 0
       /\ byte_allocs = <<[addr |-> args'.a, size |-> args'.b]>>
       => byte_pos' = start' /\ used_bytes' = 0]_vars

\* C12: add_memory never returns normally, in any state and for any
\* arguments: it ends in a panic.
C12_AddMemoryFatal == op = "add_memory" => res.kind = "Panic"
\* C12 witness: add_memory was called on an allocator in use and panicked.
C12_Witness ==
    /\ op = "add_memory" /\ res.kind = "Panic"
    /\ Len(byte_allocs) > 0 /\ Len(page_allocs) > 0

\* C13: after init(start, size), in any state it is called in, start and
\* byte_pos are start, end and page_pos are start + size, used_bytes() and
\* used_pages() are 0 and available_bytes() is size; nothing of the earlier
\* allocations is left.
C13_InitResets ==
    op = "init" =>
        /\ start = args.a /\ end = args.a + args.b
        /\ byte_pos = args.a /\ page_pos = args.a + args.b
        /\ used_bytes = 0 /\ used_pages = 0 /\ available_bytes = args.b
        /\ byte_allocs = <<>> /\ page_allocs = <<>>
\* C13 witness: the allocator has been initialised a second time, with
\* another region.
C13_Witness == op = "init" /\ inits = 2 /\ start = 192

\* round_down(page_pos - num_pages * PAGE_SIZE, mask) on unbounded integers,
\* the mask being that of 1 << units; defined when the difference is >= 0.
RoundDownPages(pos, num_pages, units) ==
    LET d == pos - num_pages * PAGE_SIZE
    IN d - (d % Pow2(units))
\* The pages fit: the difference is not negative and, rounded down, not
\* below byte_pos.
PagesFit(num_pages, units) ==
    /\ num_pages * PAGE_SIZE <= page_pos
    /\ RoundDownPages(page_pos, num_pages, units) >= byte_pos

\* C14: alloc and alloc_pages end with Ok, InvalidParam or NoMemory, never
\* with a panic, and a successful call leaves the cursor it moved at the
\* value the arithmetic has on unbounded integers (no wrapped result).
C14_NoOverflow ==
    [][op' \in { "alloc", "alloc_pages" } =>
          /\ res'.kind \in { "Ok", "InvalidParam", "NoMemory" }
          /\ (op' = "alloc" /\ res'.kind = "Ok"
                => byte_pos' = RoundUp(byte_pos, args'.b) + args'.a)
          /\ (op' = "alloc_pages" /\ res'.kind = "Ok"
                => /\ args'.a * PAGE_SIZE <= page_pos
                   /\ page_pos' = RoundDownPages(page_pos, args'.a,
                                                 args'.b \div PAGE_SIZE))]_vars

\* C15: alloc_pages(num_pages, align) with a valid align succeeds iff
\* round_down(page_pos - num_pages * PAGE_SIZE, mask) >= byte_pos; then it
\* sets page_pos to that value and returns it, and otherwise it returns
\* NoMemory.  A request of more bytes than page_pos never succeeds.  Stated
\* for the alignment factors below the word width, whose shift is defined.
C15_AllocPagesExact ==
    [][op' = "alloc_pages"
          /\ args'.b % PAGE_SIZE = 0 /\ PowerOfTwo(args'.b \div PAGE_SIZE)
          /\ args'.b \div PAGE_SIZE < WordBits
          => IF PagesFit(args'.a, args'.b \div PAGE_SIZE)
             THEN /\ res'.kind = "Ok"
                  /\ res'.addr = RoundDownPages(page_pos, args'.a,
                                                args'.b \div PAGE_SIZE)
                  /\ page_pos' = res'.addr
             ELSE res'.kind = "NoMemory"]_vars

\* C16: a successful alloc(size, align) returns the least multiple of align
\* that is >= byte_pos, sets byte_pos to that address plus size and changes
\* no other field; a successful alloc_pages changes only page_pos; only
\* init changes start and end.
C16_AllocFrame ==
    [][/\ (op' = "alloc" /\ res'.kind = "Ok"
             => /\ res'.addr = RoundUp(byte_pos, args'.b)
                /\ byte_pos' = res'.addr + args'.a
                /\ start' = start /\ end' = end /\ page_pos' = page_pos)
       /\ (op' = "alloc_pages" /\ res'.kind = "Ok"
             => start' = start /\ end' = end /\ byte_pos' = byte_pos)
       /\ (op' # "init" => start' = start /\ end' = end)]_vars

\* C17: a call of alloc or alloc_pages that returns NoMemory or InvalidParam
\* leaves start, end, byte_pos and page_pos as they were, so every request
\* has the same outcome after the failed call as before it.
C17_FailureChangesNothing ==
    [][op' \in { "alloc", "alloc_pages" }
          /\ res'.kind \in { "NoMemory", "InvalidParam" }
          => /\ start' = start /\ end' = end
             /\ byte_pos' = byte_pos /\ page_pos' = page_pos
             /\ \A l \in Layouts :
                   alloc_result(l[1], l[2])' = alloc_result(l[1], l[2])
             /\ \A r \in PageRequests :
                   alloc_pages_result(r[1], r[2])' = alloc_pages_result(r[1], r[2])]_vars
\* C17 witness: an alloc whose aligned address lies above the cursor has
\* failed with NoMemory, after bytes and pages were allocated.
C17_Witness ==
    /\ op = "alloc" /\ res.kind = "NoMemory"
    /\ byte_pos % args.b # 0
    /\ Len(byte_allocs) > 0 /\ Len(page_allocs) > 0

\* C18: every range handed out since init lies within [start, end), no byte
\* range overlaps a page range, and no two page ranges overlap.
C18_RangesInsideAndDisjoint ==
    /\ \A i \in 1 .. Len(byte_allocs) :
          /\ start <= byte_allocs[i].addr
          /\ byte_allocs[i].addr + byte_allocs[i].size <= end
    /\ \A i \in 1 .. Len(page_allocs) :
          /\ start <= page_allocs[i].addr
          /\ page_allocs[i].addr + page_allocs[i].size <= end
    /\ \A i \in 1 .. Len(byte_allocs), j \in 1 .. Len(page_allocs) :
          ~Overlap(byte_allocs[i], page_allocs[j])
    /\ \A i, j \in 1 .. Len(page_allocs) :
          i < j => ~Overlap(page_allocs[i], page_allocs[j])

\* C19: across any step other than init, byte_pos does not decrease and
\* page_pos does not increase, so used_bytes() and used_pages() do not
\* decrease and available_bytes() does not increase.
C19_CursorsMonotone ==
    [][op' # "init" =>
          /\ byte_pos' >= byte_pos /\ page_pos' <= page_pos
          /\ used_bytes' >= used_bytes /\ used_pages' >= used_pages
          /\ available_bytes' <= available_bytes]_vars

\* C20: a request that has just failed with NoMemory does not succeed after
\* any further call other than init: alloc(size, align) after a failed
\* alloc(size, align), alloc_pages(num_pages, align) after a failed
\* alloc_pages(num_pages, align).
C20_ExhaustionPermanent ==
    [][op' # "init" =>
          /\ \A l \in Layouts :
                op = "alloc" /\ res.kind = "NoMemory" /\ args = Args(l[1], l[2])
                => alloc_result(l[1], l[2])' # "Ok"
          /\ \A r \in PageRequests :
                op = "alloc_pages" /\ res.kind = "NoMemory" /\ args = Args(r[1], r[2])
                => alloc_pages_result(r[1], r[2])' # "Ok"]_vars

====
